---- MODULE Spec2Model ----
(***************************************************************************)
(* A model of APITool (agentuniverse/agent/action/tool/api_tool.py): the   *)
(* schema-driven synthesis of one HTTP request from an OpenAPI operation   *)
(* descriptor and a flat invocation input, the type coercion of body       *)
(* fields, the dispatch through the transport and the normalisation of the *)
(* response.                                                               *)
(*                                                                         *)
(* Text is a sequence of one-character strings, so that str.replace,       *)
(* substring tests, int(), float(), str(), json and urlencode are computed *)
(* character by character as Python computes them.  A Python value is a    *)
(* record [t, i, s]: t its type, i its integer part, s its characters.     *)
(***************************************************************************)
EXTENDS Integers, Sequences, FiniteSets, TLC

VARIABLES pc, openapi_spec, tool_input, headers_arg, property, value, max_recursive,
          response, locals, calls, outcome

vars == <<pc, openapi_spec, tool_input, headers_arg, property, value, max_recursive,
          response, locals, calls, outcome>>

----------------------------------------------------------------------------
(* The bound of the model, and the constant of the program.               *)

\* the integers among the input values are 0..MaxInt
MaxInt == 1

\* max_recursive=10, the default depth budget of convert_body_property_any_of
MaxRecursive == 10

----------------------------------------------------------------------------
(* Python values. *)

PyNone == [t |-> "none", i |-> 0, s |-> <<>>]
PyBool(b) == [t |-> "bool", i |-> IF b THEN 1 ELSE 0, s |-> <<>>]
PyInt(n) == [t |-> "int", i |-> n, s |-> <<>>]
\* a float w.frac, frac its decimal digits without trailing zeros (at least one)
PyFloat(w, frac) == [t |-> "float", i |-> w, s |-> frac]
PyStr(chars) == [t |-> "str", i |-> 0, s |-> chars]
\* a mapping: PyDict(0) is {} and PyDict(1) is {"k": 1}
PyDict(n) == [t |-> "dict", i |-> n, s |-> <<>>]

Digits == <<"0", "1", "2", "3", "4", "5", "6", "7", "8", "9">>

DigitSet == {Digits[k] : k \in 1..10}

DigitVal(c) == (CHOOSE k \in 1..10 : Digits[k] = c) - 1

IsDigits(s) == Len(s) > 0 /\ \A k \in 1..Len(s) : s[k] \in DigitSet

RECURSIVE ParseNat(_)
ParseNat(s) ==
    IF s = <<>> THEN 0
    ELSE 10 * ParseNat(SubSeq(s, 1, Len(s) - 1)) + DigitVal(s[Len(s)])

RECURSIVE NatToChars(_)
NatToChars(n) ==
    IF n < 10 THEN <<Digits[n + 1]>>
    ELSE NatToChars(n \div 10) \o <<Digits[(n % 10) + 1]>>

\* x in s, for a character x and a text s
HasChar(s, x) == \E k \in 1..Len(s) : s[k] = x

\* index of the first ".", or 0
DotAt(s) == IF HasChar(s, ".") THEN CHOOSE k \in 1..Len(s) : s[k] = "." /\ \A j \in 1..(k - 1) : s[j] # "." ELSE 0

RECURSIVE StripZeros(_)
StripZeros(frac) ==
    IF Len(frac) > 1 /\ frac[Len(frac)] = "0" THEN StripZeros(SubSeq(frac, 1, Len(frac) - 1))
    ELSE IF frac = <<>> THEN <<"0">> ELSE frac

\* the outcome of a call: a returned value, or a raised exception of class exc
\* whose message is of kind what about arg (and the number n)
Ret(v) == [exc |-> "", what |-> "", arg |-> <<>>, n |-> 0, v |-> v]

RaiseN(cls, what, arg, n) == [exc |-> cls, what |-> what, arg |-> arg, n |-> n, v |-> PyNone]

Raise(cls, what, arg) == RaiseN(cls, what, arg, 0)

\* str(value)
DictRepr(n) == IF n = 0 THEN <<"{", "}">> ELSE <<"{", "'", "k", "'", ":", " ", "1", "}">>

StrOf(x) ==
    CASE x.t = "none" -> <<"N", "o", "n", "e">>
      [] x.t = "bool" -> IF x.i = 1 THEN <<"T", "r", "u", "e">> ELSE <<"F", "a", "l", "s", "e">>
      [] x.t = "int" -> NatToChars(x.i)
      [] x.t = "float" -> NatToChars(x.i) \o <<".">> \o x.s
      [] x.t = "str" -> x.s
      [] x.t = "dict" -> DictRepr(x.i)

\* bool(value)
Truthy(x) ==
    CASE x.t = "none" -> FALSE
      [] x.t = "bool" -> x.i = 1
      [] x.t = "int" -> x.i # 0
      [] x.t = "float" -> x.i # 0 \/ x.s # <<"0">>
      [] x.t = "str" -> Len(x.s) > 0
      [] x.t = "dict" -> x.i > 0

\* int(value): text must be decimal digits; None and mappings are a TypeError
IntOf(x) ==
    CASE x.t = "int" -> Ret(x)
      [] x.t = "bool" -> Ret(PyInt(x.i))
      [] x.t = "float" -> Ret(PyInt(x.i))
      [] x.t = "str" -> IF IsDigits(x.s) THEN Ret(PyInt(ParseNat(x.s)))
                        ELSE Raise("ValueError", "invalid_literal", x.s)
      [] OTHER -> Raise("TypeError", "int_argument", <<x.t>>)

\* float(value)
FloatOf(x) ==
    CASE x.t = "float" -> Ret(x)
      [] x.t \in {"int", "bool"} -> Ret(PyFloat(x.i, <<"0">>))
      [] x.t = "str" ->
            LET d == DotAt(x.s)
                w == SubSeq(x.s, 1, d - 1)
                f == SubSeq(x.s, d + 1, Len(x.s))
            IN  IF d = 0
                THEN IF IsDigits(x.s) THEN Ret(PyFloat(ParseNat(x.s), <<"0">>))
                     ELSE Raise("ValueError", "invalid_float", x.s)
                ELSE IF (w = <<>> \/ IsDigits(w)) /\ (f = <<>> \/ IsDigits(f)) /\ Len(w) + Len(f) > 0
                     THEN Ret(PyFloat(ParseNat(w), StripZeros(f)))
                     ELSE Raise("ValueError", "invalid_float", x.s)
      [] OTHER -> Raise("TypeError", "float_argument", <<x.t>>)

LowerChar(c) ==
    CASE c = "T" -> "t" [] c = "F" -> "f" [] c = "N" -> "n" [] c = "G" -> "g"
      [] c = "E" -> "e" [] c = "P" -> "p" [] c = "O" -> "o" [] c = "S" -> "s"
      [] c = "U" -> "u" [] c = "A" -> "a" [] c = "C" -> "c" [] c = "H" -> "h"
      [] c = "D" -> "d" [] c = "L" -> "l" [] c = "R" -> "r" [] c = "I" -> "i"
      [] OTHER -> c

\* str.lower()
Lower(s) == [k \in 1..Len(s) |-> LowerChar(s[k])]

----------------------------------------------------------------------------
(* json.loads and json.dumps, on the JSON texts of the model: numbers,     *)
(* true, false, null, quoted text without escapes, {} and {"k": 1}.        *)

JsonNumberOk(s) == IsDigits(s) /\ (Len(s) = 1 \/ s[1] # "0")

DictCompact == <<"{", "\"", "k", "\"", ":", "1", "}">>

DictSpaced == <<"{", "\"", "k", "\"", ":", " ", "1", "}">>

\* json.loads(text): Ret(value), or the JSONDecodeError, a ValueError
JsonLoads(s) ==
    LET d == DotAt(s)
        w == SubSeq(s, 1, d - 1)
        f == SubSeq(s, d + 1, Len(s))
    IN  CASE JsonNumberOk(s) -> Ret(PyInt(ParseNat(s)))
          [] d > 0 /\ JsonNumberOk(w) /\ IsDigits(f) -> Ret(PyFloat(ParseNat(w), StripZeros(f)))
          [] s = <<"t", "r", "u", "e">> -> Ret(PyBool(TRUE))
          [] s = <<"f", "a", "l", "s", "e">> -> Ret(PyBool(FALSE))
          [] s = <<"n", "u", "l", "l">> -> Ret(PyNone)
          [] s = <<"{", "}">> -> Ret(PyDict(0))
          [] s \in {DictCompact, DictSpaced} -> Ret(PyDict(1))
          [] Len(s) >= 2 /\ s[1] = "\"" /\ s[Len(s)] = "\""
                /\ ~HasChar(SubSeq(s, 2, Len(s) - 1), "\"") -> Ret(PyStr(SubSeq(s, 2, Len(s) - 1)))
          [] OTHER -> Raise("ValueError", "json_decode", s)

\* json.dumps(value)
JsonDumps(x) ==
    CASE x.t = "none" -> <<"n", "u", "l", "l">>
      [] x.t = "bool" -> IF x.i = 1 THEN <<"t", "r", "u", "e">> ELSE <<"f", "a", "l", "s", "e">>
      [] x.t = "int" -> NatToChars(x.i)
      [] x.t = "float" -> NatToChars(x.i) \o <<".">> \o x.s
      [] x.t = "str" -> <<"\"">> \o x.s \o <<"\"">>
      [] x.t = "dict" -> IF x.i = 0 THEN <<"{", "}">> ELSE DictSpaced

----------------------------------------------------------------------------
(* Type Specs: the JSON-Schema-like dict of one property.                  *)

TypeSpec(hasType, type, hasAnyOf, anyOf, hasDefault, default) ==
    [hasType |-> hasType, type |-> type, hasAnyOf |-> hasAnyOf, anyOf |-> anyOf,
     hasDefault |-> hasDefault, default |-> default]

\* {type: tag}
T(tag) == TypeSpec(TRUE, tag, FALSE, <<>>, FALSE, PyNone)

\* {anyOf: [...]}
AnyOf(options) == TypeSpec(FALSE, "", TRUE, options, FALSE, PyNone)

\* the same Type Spec with default: d
WithDefault(p, d) == [p EXCEPT !.hasDefault = TRUE, !.default = d]

----------------------------------------------------------------------------
(* The Type Coercer.                                                       *)

\* x in text, for the one-character text x: the `in` of lines 65 and 98
InText(x, v) == HasChar(v, x)

\* the boolean candidate of a union: the literals of lines 72 and 74
BoolLiteral(v) ==
    LET low == Lower(StrOf(v))
    IN  IF low \in {<<"t", "r", "u", "e">>, <<"1">>} THEN Ret(PyBool(TRUE))
        ELSE IF low \in {<<"f", "a", "l", "s", "e">>, <<"0">>} THEN Ret(PyBool(FALSE))
        ELSE Raise("continue", "", <<>>)

\* one candidate with a `type` (lines 60-81): a returned value, an exception,
\* or "continue" (try the next option)
AnyOfTyped(option, v) ==
    CASE option.type \in {"integer", "int"} -> IntOf(v)
      [] option.type = "number" -> IF InText(".", StrOf(v)) THEN FloatOf(v) ELSE IntOf(v)
      [] option.type = "string" -> Ret(PyStr(StrOf(v)))
      [] option.type = "boolean" -> BoolLiteral(v)
      [] option.type = "null" /\ ~Truthy(v) -> Ret(PyNone)
      [] OTHER -> Raise("continue", "", <<>>)

RECURSIVE convert_body_property_any_of(_, _, _, _)
RECURSIVE AnyOfLoop(_, _, _, _, _)
\* lines 60-84: one option of the loop
AnyOfOption(prop, v, option, budget) ==
    IF option.hasType THEN AnyOfTyped(option, v)
    ELSE IF option.hasAnyOf
         THEN convert_body_property_any_of(prop, v, option.anyOf, budget - 1)
         ELSE Raise("continue", "", <<>>)

\* lines 77, 81, 85-86: `continue` and a caught ValueError go on to option
\* k + 1; a returned value or another exception ends the loop
AnyOfNext(prop, v, any_of, budget, k, r) ==
    IF r.exc \in {"continue", "ValueError"}
    THEN AnyOfLoop(prop, v, any_of, budget, k + 1)
    ELSE r

\* the for loop of lines 58-89 from option k on
AnyOfLoop(prop, v, any_of, budget, k) ==
    IF k > Len(any_of) THEN Ret(v)
    ELSE AnyOfNext(prop, v, any_of, budget, k, AnyOfOption(prop, v, any_of[k], budget))

convert_body_property_any_of(prop, v, any_of, budget) ==
    IF budget <= 0 THEN Raise("Exception", "max_recursion", <<>>)
    ELSE AnyOfLoop(prop, v, any_of, budget, 1)

\* `'.' in value` of line 98: a substring test on text, a key test on a
\* mapping, a TypeError on anything else
DotIn(v) ==
    CASE v.t = "str" -> Ret(PyBool(InText(".", v.s)))
      [] v.t = "dict" -> Ret(PyBool(FALSE))
      [] OTHER -> Raise("TypeError", "not_iterable", <<v.t>>)

\* lines 98-101, given the outcome of `'.' in value`
NumberOf(dot, v) ==
    IF dot.exc # "" THEN dot ELSE IF dot.v.i = 1 THEN FloatOf(v) ELSE IntOf(v)

\* `except ValueError: return value` (lines 113-114 and 124-125): any other
\* exception goes on to the caller
ExceptValueError(r, v) == IF r.exc = "ValueError" THEN Ret(v) ELSE r

\* lines 93-123, inside the try; a branch that returns nothing (type null on
\* a value that is not None, a property with neither type nor anyOf) falls
\* off the end of the function, which returns None
ConvertTyped(prop, v) ==
    CASE prop.hasType /\ prop.type \in {"integer", "int"} -> IntOf(v)
      [] prop.hasType /\ prop.type = "number" -> NumberOf(DotIn(v), v)
      [] prop.hasType /\ prop.type = "string" -> Ret(PyStr(StrOf(v)))
      [] prop.hasType /\ prop.type = "boolean" -> Ret(PyBool(Truthy(v)))
      [] prop.hasType /\ prop.type = "null" -> Ret(PyNone)
      [] prop.hasType /\ prop.type = "object" ->
            IF v.t = "str" THEN ExceptValueError(JsonLoads(v.s), v) ELSE Ret(v)
      [] prop.hasType -> Raise("ValueError", "invalid_type", <<prop.type>>)
      [] prop.hasAnyOf -> convert_body_property_any_of(prop, v, prop.anyOf, MaxRecursive)
      [] OTHER -> Ret(PyNone)

\* lines 91-125: only a ValueError is caught
convert_body_property_type(prop, v) == ExceptValueError(ConvertTyped(prop, v), v)

----------------------------------------------------------------------------
(* Python dicts keep insertion order: a dict is a sequence of <<key, value>> *)
(* pairs with distinct keys.                                                *)

DictHas(d, key) == \E k \in 1..Len(d) : d[k][1] = key

DictGet(d, key) == d[CHOOSE k \in 1..Len(d) : d[k][1] = key][2]

\* d[key] = v: an existing key keeps its place
DictSet(d, key, v) ==
    IF DictHas(d, key) THEN [k \in 1..Len(d) |-> IF d[k][1] = key THEN <<key, v>> ELSE d[k]]
    ELSE Append(d, <<key, v>>)

DictKeys(d) == {d[k][1] : k \in 1..Len(d)}

\* the characters of a name
NameChars(name) ==
    IF name = "Content-Type" THEN <<"C", "o", "n", "t", "e", "n", "t", "-", "T", "y", "p", "e">>
    ELSE <<name>>

\* a media type is compared, never taken apart: it is a text of one token
MediaType(ctype) == PyStr(<<ctype>>)

----------------------------------------------------------------------------
(* The Parameter Router.                                                   *)

\* a Parameter Spec; default is PyNone when the schema, or its default, is missing
ParameterSpec(name, in, required, default) ==
    [name |-> name, in |-> in, required |-> required, default |-> default]

\* a mutant: the default is looked at before `required`
get_parameter_value_default_first(parameter, parameters) ==
    IF parameter.name \in DOMAIN parameters THEN Ret(parameters[parameter.name])
    ELSE IF parameter.default # PyNone THEN Ret(parameter.default)
    ELSE IF parameter.required
         THEN Raise("Exception", "missing_required_parameter", <<parameter.name>>)
         ELSE Ret(PyNone)

get_parameter_value(parameter, parameters) ==
    IF parameter.name \in DOMAIN parameters THEN Ret(parameters[parameter.name])
    ELSE IF parameter.required
         THEN Raise("Exception", "missing_required_parameter", <<parameter.name>>)
         ELSE Ret(parameter.default)

\* a mutant: the `is not None` test of line 140 is missing
RouteValueAny(parameter, v, maps) ==
    CASE parameter.in = "path" -> [maps EXCEPT !.path_params = DictSet(@, parameter.name, v)]
      [] parameter.in = "query" -> [maps EXCEPT !.params = DictSet(@, parameter.name, v)]
      [] parameter.in = "cookie" -> [maps EXCEPT !.cookies = DictSet(@, parameter.name, v)]
      [] parameter.in = "header" -> [maps EXCEPT !.headers = DictSet(@, parameter.name, v)]
      [] OTHER -> maps

\* lines 140-151: one parameter's resolved value, routed by its `in`
RouteValue(parameter, v, maps) ==
    IF v = PyNone THEN maps
    ELSE CASE parameter.in = "path" ->
                [maps EXCEPT !.path_params = DictSet(@, parameter.name, v)]
           [] parameter.in = "query" ->
                [maps EXCEPT !.params = DictSet(@, parameter.name, v)]
           [] parameter.in = "cookie" ->
                [maps EXCEPT !.cookies = DictSet(@, parameter.name, v)]
           [] parameter.in = "header" ->
                [maps EXCEPT !.headers = DictSet(@, parameter.name, v)]
           [] OTHER -> maps

RECURSIVE RouteParameters(_, _, _, _)
\* parameter k resolved to r: an exception ends the loop
RouteNext(plist, parameters, maps, k, r) ==
    IF r.exc # "" THEN [err |-> r, maps |-> maps]
    ELSE RouteParameters(plist, parameters, RouteValue(plist[k], r.v, maps), k + 1)

\* the loop of lines 138-151 from parameter k on: the error (if any) and the maps
RouteParameters(plist, parameters, maps, k) ==
    IF k > Len(plist) THEN [err |-> Ret(PyNone), maps |-> maps]
    ELSE RouteNext(plist, parameters, maps, k, get_parameter_value(plist[k], parameters))

----------------------------------------------------------------------------
(* The Body Synthesizer.                                                   *)

\* the requestBody of a descriptor: present is `'requestBody' in openapi_spec`,
\* null is `openapi_spec['requestBody'] is None`, content the ordered mapping
\* content type -> schema, hasContent is `'content' in requestBody`
RequestBody(present, null, hasContent, content) ==
    [present |-> present, null |-> null, hasContent |-> hasContent, content |-> content]

NoRequestBody == RequestBody(FALSE, FALSE, FALSE, <<>>)

NullRequestBody == RequestBody(TRUE, TRUE, FALSE, <<>>)

\* a Body Spec: the required names and the ordered properties <<name, Type Spec>>
Schema(required, properties) == [required |-> required, properties |-> properties]

\* lines 169-171: the message reads self.plugin_api_model, an attribute APITool
\* does not have, so building the message raises AttributeError
MissingBodyField(name) == Raise("AttributeError", "no_attribute", <<"plugin_api_model">>)

\* lines 164-175: the value of one declared property, or the exception
BodyField(name, prop, required, parameters) ==
    IF name \in DOMAIN parameters THEN convert_body_property_type(prop, parameters[name])
    ELSE IF name \in required THEN MissingBodyField(name)
    ELSE IF prop.hasDefault THEN Ret(prop.default)
    ELSE Ret(PyNone)

RECURSIVE BodyProperties(_, _, _, _)
\* property k resolved to f: an exception ends the loop
BodyNext(schema, parameters, body, k, f) ==
    IF f.exc # "" THEN [err |-> f, body |-> body]
    ELSE BodyProperties(schema, parameters, DictSet(body, schema.properties[k][1], f.v), k + 1)

\* the loop of lines 163-175 from property k on: the error (if any) and the body
BodyProperties(schema, parameters, body, k) ==
    IF k > Len(schema.properties) THEN [err |-> Ret(PyNone), body |-> body]
    ELSE BodyNext(schema, parameters, body, k,
                  BodyField(schema.properties[k][1], schema.properties[k][2],
                            schema.required, parameters))

\* line 158, and the outcome b of the loop over the properties
BodyOf(ctype, b, headers) ==
    [err |-> b.err, body |-> b.body,
     headers |-> DictSet(headers, "Content-Type", MediaType(ctype))]

\* a mutant: the `break` of line 176 is missing, so the last content type wins
BuildBodyLast(requestBody, parameters, headers) ==
    IF requestBody.present /\ ~requestBody.null /\ requestBody.hasContent /\ Len(requestBody.content) > 0
    THEN BodyOf(requestBody.content[Len(requestBody.content)][1],
                BodyProperties(requestBody.content[Len(requestBody.content)][2], parameters,
                               <<>>, 1), headers)
    ELSE [err |-> Ret(PyNone), body |-> <<>>, headers |-> headers]

\* lines 154-176: only the first content type is used
BuildBody(requestBody, parameters, headers) ==
    IF requestBody.present /\ ~requestBody.null /\ requestBody.hasContent /\ Len(requestBody.content) > 0
    THEN BodyOf(requestBody.content[1][1],
                BodyProperties(requestBody.content[1][2], parameters, <<>>, 1), headers)
    ELSE [err |-> Ret(PyNone), body |-> <<>>, headers |-> headers]

----------------------------------------------------------------------------
(* The Request Executor.                                                   *)

\* a mutant: str.replace(old, new, 1), the first occurrence only
ReplaceFirst(s, old, new) ==
    IF \E k \in 1..(Len(s) - Len(old) + 1) : SubSeq(s, k, k + Len(old) - 1) = old
    THEN LET k == CHOOSE j \in 1..(Len(s) - Len(old) + 1) :
                      /\ SubSeq(s, j, j + Len(old) - 1) = old
                      /\ \A i \in 1..(j - 1) : SubSeq(s, i, i + Len(old) - 1) # old
         IN  SubSeq(s, 1, k - 1) \o new \o SubSeq(s, k + Len(old), Len(s))
    ELSE s

RECURSIVE Replace(_, _, _)
\* str.replace(old, new): every occurrence, left to right, without overlap
Replace(s, old, new) ==
    IF Len(s) < Len(old) THEN s
    ELSE IF SubSeq(s, 1, Len(old)) = old
         THEN new \o Replace(SubSeq(s, Len(old) + 1, Len(s)), old, new)
         ELSE <<Head(s)>> \o Replace(Tail(s), old, new)

\* f'{{{name}}}'
Placeholder(name) == <<"{">> \o NameChars(name) \o <<"}">>

RECURSIVE ReplacePathParams(_, _, _)
\* lines 179-180 from path parameter k on, in the order they were routed
ReplacePathParams(url, path_params, k) ==
    IF k > Len(path_params) THEN url
    ELSE ReplacePathParams(Replace(url, Placeholder(path_params[k][1]), StrOf(path_params[k][2])),
                           path_params, k + 1)

\* urllib.parse.quote_plus of one character
QuoteChar(c) ==
    CASE c = " " -> <<"+">>
      [] c = "{" -> <<"%", "7", "B">>
      [] c = "}" -> <<"%", "7", "D">>
      [] c = "'" -> <<"%", "2", "7">>
      [] c = ":" -> <<"%", "3", "A">>
      [] c = "\"" -> <<"%", "2", "2">>
      [] c = "/" -> <<"%", "2", "F">>
      [] OTHER -> <<c>>

RECURSIVE QuotePlus(_)
QuotePlus(s) == IF s = <<>> THEN <<>> ELSE QuoteChar(Head(s)) \o QuotePlus(Tail(s))

RECURSIVE UrlEncode(_, _)
\* urlencode(body) from pair k on: key=value joined by &, in the dict's order
UrlEncode(body, k) ==
    IF k > Len(body) THEN <<>>
    ELSE (IF k > 1 THEN <<"&">> ELSE <<>>)
         \o QuotePlus(NameChars(body[k][1])) \o <<"=">> \o QuotePlus(StrOf(body[k][2]))
         \o UrlEncode(body, k + 1)

RECURSIVE JsonDumpsItems(_, _)
JsonDumpsItems(body, k) ==
    IF k > Len(body) THEN <<>>
    ELSE (IF k > 1 THEN <<",", " ">> ELSE <<>>)
         \o <<"\"">> \o NameChars(body[k][1]) \o <<"\"", ":", " ">> \o JsonDumps(body[k][2])
         \o JsonDumpsItems(body, k + 1)

\* json.dumps(body) of the field map
JsonDumpsMap(body) == <<"{">> \o JsonDumpsItems(body, 1) \o <<"}">>

\* the data handed to the transport: a text, or the field map itself
DataText(chars) == [kind |-> "text", text |-> chars, map |-> <<>>]

DataMap(body) == [kind |-> "map", text |-> <<>>, map |-> body]

\* a mutant: an empty field map is handed over as it is
SerializeBodyNonEmpty(headers, body) ==
    IF DictHas(headers, "Content-Type") /\ body # <<>>
    THEN IF DictGet(headers, "Content-Type") = MediaType("application/json")
         THEN DataText(JsonDumpsMap(body))
         ELSE IF DictGet(headers, "Content-Type") = MediaType("application/x-www-form-urlencoded")
              THEN DataText(UrlEncode(body, 1))
              ELSE DataMap(body)
    ELSE DataMap(body)

\* lines 183-189
SerializeBody(headers, body) ==
    IF DictHas(headers, "Content-Type")
    THEN IF DictGet(headers, "Content-Type") = MediaType("application/json")
         THEN DataText(JsonDumpsMap(body))
         ELSE IF DictGet(headers, "Content-Type") = MediaType("application/x-www-form-urlencoded")
              THEN DataText(UrlEncode(body, 1))
              ELSE DataMap(body)
    ELSE DataMap(body)

\* the verbs of line 190
Verbs == {<<"g", "e", "t">>, <<"h", "e", "a", "d">>, <<"p", "o", "s", "t">>, <<"p", "u", "t">>,
          <<"d", "e", "l", "e", "t", "e">>, <<"p", "a", "t", "c", "h">>}

\* a mutant: one more verb is let through
MethodAllowedOptions(method) ==
    method \in Verbs \cup {<<"o", "p", "t", "i", "o", "n", "s">>}

\* line 190
MethodAllowed(method) == method \in Verbs

NoCall == [verb |-> <<>>, url |-> <<>>, params |-> <<>>, headers |-> <<>>,
           data |-> DataMap(<<>>), follow_redirects |-> FALSE]

\* what do_http_request has done when it stops: the exception raised (if any),
\* its local variables there, and the transport call made (if any)
Stopped(err, loc, dispatched, call) ==
    [err |-> err, locals |-> loc, dispatched |-> dispatched, call |-> call]

Locals(method, maps, headers, body, url, data) ==
    [method |-> method, path_params |-> maps.path_params, params |-> maps.params,
     cookies |-> maps.cookies, headers |-> headers, body |-> body, url |-> url, data |-> data]

\* lines 190-195
Dispatch(loc) ==
    IF MethodAllowed(loc.method)
    THEN Stopped(Ret(PyNone), loc, TRUE,
                 [verb |-> loc.method, url |-> loc.url, params |-> loc.params,
                  headers |-> loc.headers, data |-> loc.data, follow_redirects |-> TRUE])
    ELSE Stopped(Raise("ValueError", "invalid_http_method", <<>>), loc, FALSE, NoCall)

\* lines 178-195, given the maps of the router and the outcome of the body
AfterBody(url, method, maps, built) ==
    IF built.err.exc # ""
    THEN Stopped(built.err, Locals(method, maps, built.headers, built.body, url, DataMap(<<>>)),
                 FALSE, NoCall)
    ELSE Dispatch(Locals(method, maps, built.headers, built.body,
                         ReplacePathParams(url, maps.path_params, 1),
                         SerializeBody(built.headers, built.body)))

\* lines 153-195, given the outcome of the router
AfterRoute(url, method, routed, parameters, spec) ==
    IF routed.err.exc # ""
    THEN Stopped(routed.err,
                 Locals(method, routed.maps, routed.maps.headers, <<>>, url, DataMap(<<>>)),
                 FALSE, NoCall)
    ELSE AfterBody(url, method, routed.maps,
                   BuildBody(spec.requestBody, parameters, routed.maps.headers))

\* do_http_request up to the transport call (spec is self.openapi_spec)
do_http_request(url, method, headers, parameters, spec) ==
    AfterRoute(url, Lower(method),
               RouteParameters(spec.operation.parameters, parameters,
                               [path_params |-> <<>>, params |-> <<>>, cookies |-> <<>>,
                                headers |-> headers], 1),
               parameters, spec)

----------------------------------------------------------------------------
(* The Response Normalizer.                                                *)

\* an httpx.Response; content is empty exactly when text is
Response(status_code, text) == [type |-> "Response", status_code |-> status_code, text |-> text]

\* an object of another type, handed over as a response
NotResponse(type) == [type |-> type, status_code |-> 0, text |-> <<>>]

\* line 206
EmptyResponseText == <<"Empty response from the tool, please check your parameters and try again.">>

\* lines 207-214, given the outcome j of response.json()
JsonOrText(j, text) == IF j.exc = "" THEN Ret(PyStr(JsonDumps(j.v))) ELSE Ret(PyStr(text))

\* a mutant: the empty body is tested before the status
validate_and_parse_response_empty_first(resp) ==
    IF resp.type = "Response"
    THEN IF resp.text = <<>> THEN Ret(PyStr(EmptyResponseText))
         ELSE IF resp.status_code >= 400
         THEN RaiseN("Exception", "request_failed", resp.text, resp.status_code)
         ELSE JsonOrText(JsonLoads(resp.text), resp.text)
    ELSE Raise("ValueError", "invalid_response_type", <<resp.type>>)

validate_and_parse_response(resp) ==
    IF resp.type = "Response"
    THEN IF resp.status_code >= 400
         THEN RaiseN("Exception", "request_failed", resp.text, resp.status_code)
         ELSE IF resp.text = <<>> THEN Ret(PyStr(EmptyResponseText))
         ELSE JsonOrText(JsonLoads(resp.text), resp.text)
    ELSE Raise("ValueError", "invalid_response_type", <<resp.type>>)

----------------------------------------------------------------------------
(* One invocation: execute, or do_http_request called directly with the    *)
(* caller's header map; the transport answers; the caller gets the result. *)

Descriptor(url, method, parameters, requestBody) ==
    [url |-> url, method |-> method, operation |-> [parameters |-> parameters],
     requestBody |-> requestBody]

NoLocals == [method |-> <<>>, path_params |-> <<>>, params |-> <<>>, cookies |-> <<>>,
             headers |-> <<>>, body |-> <<>>, url |-> <<>>, data |-> DataMap(<<>>)]

NoResponse == NotResponse("")

\* the responses of the transport
Responses == {Response(200, <<>>), Response(404, <<"n", "o">>), Response(200, DictCompact)}

\* do_http_request has run to r: the transport call is in flight, or the
\* exception has reached the caller
Request(entry, r) ==
    /\ pc = "idle"
    /\ locals' = r.locals
    /\ IF r.dispatched
       THEN /\ calls' = Append(calls, r.call)
            /\ pc' = entry
            /\ outcome' = outcome
       ELSE /\ calls' = calls
            /\ pc' = "raised"
            /\ outcome' = r.err
    /\ UNCHANGED <<openapi_spec, tool_input, headers_arg, property, value, max_recursive,
                   response>>

\* lines 218-219
Execute ==
    Request("execute:transport",
            do_http_request(openapi_spec.url, openapi_spec.method, <<>>, tool_input, openapi_spec))

\* lines 127-195, called with the caller's headers
DoHttpRequest ==
    Request("do_http_request:transport",
            do_http_request(openapi_spec.url, openapi_spec.method, headers_arg, tool_input,
                            openapi_spec))

\* the transport returns a response
TransportRespond ==
    /\ pc \in {"execute:transport", "do_http_request:transport"}
    /\ \E r \in Responses : response' = r
    /\ pc' = IF pc = "execute:transport" THEN "execute:response" ELSE "do_http_request:response"
    /\ UNCHANGED <<openapi_spec, tool_input, headers_arg, property, value, max_recursive,
                   locals, calls, outcome>>

\* line 220: execute returns res.text
ExecuteReturn ==
    /\ pc = "execute:response"
    /\ outcome' = Ret(PyStr(response.text))
    /\ pc' = "execute:returned"
    /\ UNCHANGED <<openapi_spec, tool_input, headers_arg, property, value, max_recursive,
                   response, locals, calls>>

\* line 193: do_http_request returns the response object (held in response)
DoHttpRequestReturn ==
    /\ pc = "do_http_request:response"
    /\ outcome' = [Ret(PyNone) EXCEPT !.what = "response"]
    /\ pc' = "do_http_request:returned"
    /\ UNCHANGED <<openapi_spec, tool_input, headers_arg, property, value, max_recursive,
                   response, locals, calls>>

Next == Execute \/ DoHttpRequest \/ TransportRespond \/ ExecuteReturn \/ DoHttpRequestReturn

\* the invocation inputs: maps from some of the names to the values
InputsOver(names, values) == UNION {[S -> values] : S \in SUBSET names}

IntValues == {PyInt(n) : n \in 0..MaxInt}

\* what every specification of one invocation starts from
InitInvocation ==
    /\ pc = "idle"
    /\ property = T("string")
    /\ value = PyNone
    /\ max_recursive = MaxRecursive
    /\ response = NoResponse
    /\ locals = NoLocals
    /\ calls = <<>>
    /\ outcome = Ret(PyNone)

(* Spec: every pair of Parameter Specs "a", "b", under present, null and   *)
(* absent inputs.                                                          *)

Locations == {"path", "query", "header", "cookie", "formData"}

ParamSpecs(name) ==
    {ParameterSpec(name, in, required, default) :
        in \in Locations, required \in BOOLEAN, default \in {PyNone, PyStr(<<"d">>)}}

RouteParamLists ==
    {<<>>} \cup {<<p>> : p \in ParamSpecs("a")}
           \cup {<<p, q>> : p \in ParamSpecs("a"), q \in ParamSpecs("b")}

UrlAB == <<"/", "{", "a", "}", "/", "{", "b", "}">>

Init ==
    /\ InitInvocation
    /\ headers_arg = <<>>
    /\ \E method \in {<<"G", "E", "T">>, <<"t", "r", "a", "c", "e">>}, plist \in RouteParamLists :
          openapi_spec = Descriptor(UrlAB, method, plist, NoRequestBody)
    /\ tool_input \in InputsOver({"a", "b"}, {PyNone} \cup IntValues)

Spec == Init /\ [][Next]_vars

(* SpecUrl: path and query parameters in both orders, URL templates with   *)
(* repeated, adjacent and undeclared placeholders, and values that contain *)
(* braces.                                                                 *)

UrlTemplates ==
    {UrlAB,
     <<"/", "{", "b", "}", "{", "a", "}", "/", "{", "a", "}">>,
     <<"/", "{", "c", "}", "/", "{", "a", "}">>,
     <<"/", "{", "a", "}", "b", "}">>}

UrlParamSpecs(name) == {ParameterSpec(name, in, FALSE, PyNone) : in \in {"path", "query"}}

UrlParamLists ==
    {<<>>} \cup {<<p>> : p \in UrlParamSpecs("a") \cup UrlParamSpecs("b")}
           \cup {<<p, q>> : p \in UrlParamSpecs("a"), q \in UrlParamSpecs("b")}
           \cup {<<q, p>> : p \in UrlParamSpecs("a"), q \in UrlParamSpecs("b")}

UrlValues ==
    IntValues \cup {PyStr(<<"{", "b", "}">>), PyStr(<<"{", "a", "}">>), PyStr(<<"{">>),
                    PyStr(<<"x">>)}

InitUrl ==
    /\ InitInvocation
    /\ headers_arg = <<>>
    /\ \E url \in UrlTemplates, plist \in UrlParamLists :
          openapi_spec = Descriptor(url, <<"g", "e", "t">>, plist, NoRequestBody)
    /\ tool_input \in InputsOver({"a", "b"}, UrlValues)

SpecUrl == InitUrl /\ [][Next]_vars

(* SpecMethod: every verb in some letter case, and methods outside the     *)
(* verbs, on requests whose construction succeeds or fails.                *)

Methods ==
    {<<"G", "E", "T">>, <<"g", "e", "t">>, <<"G", "e", "t">>, <<"H", "E", "A", "D">>,
     <<"p", "o", "s", "t">>, <<"P", "U", "T">>, <<"D", "e", "l", "e", "t", "e">>,
     <<"p", "a", "t", "c", "h">>, <<"P", "A", "T", "C", "H">>,
     <<"O", "P", "T", "I", "O", "N", "S">>, <<"t", "r", "a", "c", "e">>, <<>>}

JsonBodyB == RequestBody(TRUE, FALSE, TRUE,
                         <<<<"application/json", Schema({"b"}, <<<<"b", T("integer")>>>>)>>>>)

InitMethod ==
    /\ InitInvocation
    /\ headers_arg \in {<<>>, <<<<"X", PyStr(<<"h">>)>>>>}
    /\ \E method \in Methods, body \in {NoRequestBody, NullRequestBody, JsonBodyB},
          plist \in {<<>>, <<ParameterSpec("a", "query", TRUE, PyNone)>>} :
          openapi_spec = Descriptor(UrlAB, method, plist, body)
    /\ tool_input \in InputsOver({"a", "b"}, IntValues)

SpecMethod == InitMethod /\ [][Next]_vars

(* SpecBody: a requestBody of one or two content types whose first schema  *)
(* declares "a" and "b" in either order, under present, null and absent    *)
(* inputs.                                                                 *)

BodyTypeSpecs ==
    {T("integer"), WithDefault(T("string"), PyStr(<<"d">>)),
     AnyOf(<<T("boolean"), T("integer")>>)}

BodyPropertyLists ==
    {<<>>} \cup {<<<<n, t>>>> : n \in {"a", "b"}, t \in BodyTypeSpecs}
           \cup {<<<<"a", t>>, <<"b", u>>>> : t \in BodyTypeSpecs, u \in BodyTypeSpecs}
           \cup {<<<<"b", t>>, <<"a", u>>>> : t \in BodyTypeSpecs, u \in BodyTypeSpecs}

ContentTypeLists ==
    {<<"application/json">>, <<"application/x-www-form-urlencoded">>, <<"text/plain">>,
     <<"application/x-www-form-urlencoded", "application/json">>}

\* the first content type has the schema, the others an empty one
ContentOf(ctypes, schema) ==
    [k \in 1..Len(ctypes) |-> <<ctypes[k], IF k = 1 THEN schema ELSE Schema({}, <<>>)>>]

BodyValues == {PyNone, PyStr(<<"2">>), PyStr(<<"x", " ", "y">>)} \cup IntValues

InitBody ==
    /\ InitInvocation
    /\ headers_arg = <<>>
    /\ \E ctypes \in ContentTypeLists, required \in {{}, {"a"}, {"a", "b"}},
          properties \in BodyPropertyLists :
          openapi_spec = Descriptor(UrlAB, <<"p", "o", "s", "t">>, <<>>,
                                    RequestBody(TRUE, FALSE, TRUE,
                                                ContentOf(ctypes, Schema(required, properties))))
    /\ tool_input \in InputsOver({"a", "b"}, BodyValues)

SpecBody == InitBody /\ [][Next]_vars

(* SpecHeaders: descriptors without a requestBody, with a null one and     *)
(* with one that has no content, called with header maps that do or do not *)
(* carry a Content-Type, and with header parameters, one of them named     *)
(* Content-Type.                                                           *)

MediaTypes ==
    {MediaType("application/json"), MediaType("application/x-www-form-urlencoded"),
     MediaType("text/plain")}

HeaderMaps ==
    {<<>>, <<<<"X", PyStr(<<"h">>)>>>>}
        \cup {<<<<"Content-Type", m>>>> : m \in MediaTypes}
        \cup {<<<<"X", PyStr(<<"h">>)>>, <<"Content-Type", m>>>> : m \in MediaTypes}

ContentTypeParamSpecs ==
    {ParameterSpec("Content-Type", "header", required, default) :
        required \in BOOLEAN, default \in {PyNone, MediaType("application/json")}}

HeaderParamLists ==
    LET others == {ParameterSpec("a", in, FALSE, PyNone) : in \in {"header", "query"}}
    IN  {<<>>} \cup {<<p>> : p \in ContentTypeParamSpecs \cup others}
               \cup {<<p, q>> : p \in ContentTypeParamSpecs, q \in others}

\* a requestBody object without the key content
RequestBodyWithoutContent == RequestBody(TRUE, FALSE, FALSE, <<>>)

InitHeaders ==
    /\ InitInvocation
    /\ headers_arg \in HeaderMaps
    /\ \E method \in {<<"g", "e", "t">>, <<"P", "O", "S", "T">>, <<"t", "r", "a", "c", "e">>},
          body \in {NoRequestBody, NullRequestBody, RequestBodyWithoutContent},
          plist \in HeaderParamLists :
          openapi_spec = Descriptor(UrlAB, method, plist, body)
    /\ tool_input \in InputsOver({"Content-Type", "a"}, {PyNone, PyInt(MaxInt)} \cup MediaTypes)

SpecHeaders == InitHeaders /\ [][Next]_vars

----------------------------------------------------------------------------
(* SpecCoerce: the Type Coercer on its own, over every Type Spec of one    *)
(* type tag and every union of up to two candidates, a candidate being a   *)
(* type tag or a nested union.                                             *)

TypeTags == {"integer", "int", "number", "string", "boolean", "null", "object", "array"}

NestedUnions ==
    LET leaves == {T("boolean"), T("integer"), T("null")}
    IN  {AnyOf(<<>>)} \cup {AnyOf(<<t>>) : t \in leaves}
                      \cup {AnyOf(<<t, u>>) : t \in leaves, u \in leaves}

Candidates == {T(tag) : tag \in TypeTags} \cup NestedUnions

CoerceTypeSpecs ==
    {T(tag) : tag \in TypeTags} \cup {AnyOf(<<>>)} \cup {AnyOf(<<c>>) : c \in Candidates}
        \cup {AnyOf(<<c, d>>) : c \in Candidates, d \in Candidates}

RawValues ==
    {PyNone, PyBool(TRUE), PyBool(FALSE), PyFloat(3, <<"1", "4">>), PyDict(0), PyDict(1),
     PyStr(<<>>), PyStr(<<"3">>), PyStr(<<"3", ".", "1", "4">>), PyStr(<<"x", "y", "z">>),
     PyStr(<<"1">>), PyStr(<<"2">>), PyStr(<<"T", "r", "u", "e">>), PyStr(DictCompact)}
        \cup IntValues

InitCoerce ==
    /\ pc = "coerce"
    /\ property \in CoerceTypeSpecs
    /\ value \in RawValues
    /\ max_recursive = MaxRecursive
    /\ openapi_spec = Descriptor(<<>>, <<>>, <<>>, NoRequestBody)
    /\ tool_input = <<>>
    /\ headers_arg = <<>>
    /\ response = NoResponse
    /\ locals = NoLocals
    /\ calls = <<>>
    /\ outcome = Ret(PyNone)

\* a call of convert_body_property_type(property, value)
ConvertBodyPropertyType ==
    /\ pc = "coerce"
    /\ outcome' = convert_body_property_type(property, value)
    /\ pc' = "coerced:type"
    /\ UNCHANGED <<openapi_spec, tool_input, headers_arg, property, value, max_recursive,
                   response, locals, calls>>

\* a call of convert_body_property_any_of(property, value, property['anyOf'], budget)
ConvertBodyPropertyAnyOf ==
    /\ pc = "coerce"
    /\ property.hasAnyOf
    /\ \E budget \in {0, 1, 2, MaxRecursive} :
          /\ max_recursive' = budget
          /\ outcome' = convert_body_property_any_of(property, value, property.anyOf, budget)
    /\ pc' = "coerced:anyOf"
    /\ UNCHANGED <<openapi_spec, tool_input, headers_arg, property, value, response, locals,
                   calls>>

NextCoerce == ConvertBodyPropertyType \/ ConvertBodyPropertyAnyOf

SpecCoerce == InitCoerce /\ [][NextCoerce]_vars

----------------------------------------------------------------------------
(* SpecNormalize: the Response Normalizer on its own, over responses of    *)
(* every status class and body shape, and objects that are no response.    *)

StatusCodes == {100, 200, 204, 301, 399, 400, 404, 500}

ResponseTexts ==
    {<<>>, <<"7">>, <<"0", "7">>, <<"3", ".", "1", "0">>, DictCompact, DictSpaced,
     <<"x", "y", "z">>, <<"n", "u", "l", "l">>, <<"\"", "h", "i", "\"">>, <<"{", "}">>,
     <<"t", "r", "u", "e">>, <<"{", "b", "}">>}

ResponseObjects ==
    {Response(code, text) : code \in StatusCodes, text \in ResponseTexts}
        \cup {NotResponse(type) : type \in {"NoneType", "str", "dict"}}

InitNormalize ==
    /\ pc = "normalize"
    /\ response \in ResponseObjects
    /\ property = T("string")
    /\ value = PyNone
    /\ max_recursive = MaxRecursive
    /\ openapi_spec = Descriptor(<<>>, <<>>, <<>>, NoRequestBody)
    /\ tool_input = <<>>
    /\ headers_arg = <<>>
    /\ locals = NoLocals
    /\ calls = <<>>
    /\ outcome = Ret(PyNone)

\* a call of validate_and_parse_response(response)
ValidateAndParseResponse ==
    /\ pc = "normalize"
    /\ outcome' = validate_and_parse_response(response)
    /\ pc' = "normalized"
    /\ UNCHANGED <<openapi_spec, tool_input, headers_arg, property, value, max_recursive,
                   response, locals, calls>>

NextNormalize == ValidateAndParseResponse

SpecNormalize == InitNormalize /\ [][NextNormalize]_vars

----------------------------------------------------------------------------
(* The claims.                                                             *)

Parameters == openapi_spec.operation.parameters

\* the declared parameters that are required and absent from the input
MissingRequired ==
    {k \in 1..Len(Parameters) : Parameters[k].required /\ Parameters[k].name \notin DOMAIN tool_input}

FirstOf(S) == CHOOSE k \in S : \A j \in S : k <= j

\* do_http_request has run
Ran == pc # "idle"

(* C1: once do_http_request has run on a descriptor with a required        *)
(* parameter whose name is no key of the input, it has raised the          *)
(* missing-parameter error, the error names a required parameter that is   *)
(* absent (the first in declaration order, so that parameter itself when   *)
(* it is the only one), and the transport was never called; this whatever  *)
(* the `in` and the schema default of the parameter.                       *)
C1_MissingRequiredParameter ==
    (Ran /\ MissingRequired # {}) =>
        /\ pc = "raised"
        /\ outcome.exc = "Exception"
        /\ outcome.what = "missing_required_parameter"
        /\ outcome.arg = <<Parameters[FirstOf(MissingRequired)].name>>
        /\ calls = <<>>

\* a required parameter with a schema default and an unrouted `in` is absent,
\* after a first parameter that was resolved, and the call has failed
C1_Witness ==
    /\ pc = "raised"
    /\ MissingRequired = {2}
    /\ Parameters[2].default # PyNone
    /\ Parameters[2].in = "formData"
    /\ outcome.arg = <<"b">>

\* the schema of the first content type (meaningful when the descriptor has one)
HasBodySchema ==
    /\ openapi_spec.requestBody.present /\ ~openapi_spec.requestBody.null
    /\ openapi_spec.requestBody.hasContent /\ Len(openapi_spec.requestBody.content) > 0

FirstContentType == openapi_spec.requestBody.content[1][1]

BodySchema == openapi_spec.requestBody.content[1][2]

\* the declared properties that are required and absent from the input
MissingBodyFields ==
    {k \in 1..Len(BodySchema.properties) :
        /\ BodySchema.properties[k][1] \in BodySchema.required
        /\ BodySchema.properties[k][1] \notin DOMAIN tool_input}

\* the declared properties before property k are all absent from the input,
\* so that no coercion runs before property k is reached
NoneBeforeInInput(k) ==
    \A j \in 1..(k - 1) : BodySchema.properties[j][1] \notin DOMAIN tool_input

(* C2: once do_http_request has run on a descriptor whose first content    *)
(* type's schema declares a required property whose name is no key of the  *)
(* input, it has raised the same missing-parameter error as the Parameter  *)
(* Router raises, naming the property, and the transport was never called. *)
(* (Stated where no declared property before the missing one is in the     *)
(* input, so that body construction reaches the missing property.)         *)
C2_MissingBodyFieldClaimed ==
    (Ran /\ MissingRequired = {} /\ HasBodySchema /\ MissingBodyFields # {}
         /\ NoneBeforeInInput(FirstOf(MissingBodyFields))) =>
        /\ pc = "raised"
        /\ outcome.what = "missing_required_parameter"
        /\ outcome.arg = <<BodySchema.properties[FirstOf(MissingBodyFields)][1]>>
        /\ calls = <<>>

(* C3: what execute returns is what the Response Normalizer makes of the   *)
(* transport's response: its text for a response below 400, the sentinel   *)
(* for an empty body, and for a status of 400 or more the HttpStatusError   *)
(* instead of any text.                                                    *)
C3_ExecuteNormalizesClaimed ==
    (pc = "execute:returned") => outcome = validate_and_parse_response(response)

(* C4: validate_and_parse_response falls in exactly one case, in this      *)
(* order: no response object -> the invalid-type error naming the type;    *)
(* status >= 400 -> the status error, carrying status and body text, even   *)
(* when the body is empty; empty body -> the sentinel; a body that decodes *)
(* as JSON -> a JSON text that decodes to the same value; otherwise the    *)
(* text as it is.  Below 400 nothing is raised.                            *)
C4_NormalizerCases ==
    (pc = "normalized") =>
        /\ (response.type # "Response") =>
                /\ outcome.exc # ""
                /\ outcome.what = "invalid_response_type"
                /\ outcome.arg = <<response.type>>
        /\ (response.type = "Response" /\ response.status_code >= 400) =>
                /\ outcome.exc # ""
                /\ outcome.what = "request_failed"
                /\ outcome.n = response.status_code
                /\ outcome.arg = response.text
        /\ (response.type = "Response" /\ response.status_code < 400) =>
                /\ outcome.exc = ""
                /\ outcome.v.t = "str"
                /\ (response.text = <<>>) => outcome.v.s = EmptyResponseText
                /\ (response.text # <<>> /\ JsonLoads(response.text).exc = "") =>
                        /\ JsonLoads(outcome.v.s) = JsonLoads(response.text)
                        /\ outcome.v.s = JsonDumps(JsonLoads(response.text).v)
                /\ (response.text # <<>> /\ JsonLoads(response.text).exc # "") =>
                        outcome.v.s = response.text

\* a response of status 400 or more with an empty body was normalized
C4_Witness ==
    /\ pc = "normalized"
    /\ response.type = "Response"
    /\ response.status_code >= 400
    /\ response.text = <<>>
    /\ outcome.what = "request_failed"

\* a value of the type a tag declares (for object: whatever the text decodes to)
OfDeclaredType(v, tag) ==
    CASE tag \in {"integer", "int"} -> v.t = "int"
      [] tag = "number" -> v.t \in {"int", "float"}
      [] tag = "string" -> v.t = "str"
      [] tag = "boolean" -> v.t = "bool"
      [] tag = "null" -> v.t = "none"
      [] tag = "object" -> TRUE
      [] OTHER -> FALSE

(* C5: convert_body_property_type on a Type Spec with a `type` never       *)
(* raises: it returns the value coerced to the declared type or the value  *)
(* unchanged, and returns null only for a value that is null.              *)
C5_SingleTypeNeverFailsClaimed ==
    (pc = "coerced:type" /\ property.hasType) =>
        /\ outcome.exc = ""
        /\ outcome.v = value \/ OfDeclaredType(outcome.v, property.type)
        /\ outcome.v = PyNone => value = PyNone

RECURSIVE ClaimedSucceeds(_, _)
\* whether a candidate of a union succeeds on v, as the claim lists it
ClaimedSucceeds(option, v) ==
    IF option.hasType
    THEN CASE option.type \in {"integer", "int"} -> IntOf(v).exc = ""
           [] option.type = "number" ->
                IF InText(".", StrOf(v)) THEN FloatOf(v).exc = "" ELSE IntOf(v).exc = ""
           [] option.type = "string" -> TRUE
           [] option.type = "boolean" -> BoolLiteral(v).exc = ""
           [] option.type = "null" -> ~Truthy(v)
           [] OTHER -> FALSE
    ELSE /\ option.hasAnyOf
         /\ \E k \in 1..Len(option.anyOf) : ClaimedSucceeds(option.anyOf[k], v)

RECURSIVE ClaimedUnion(_, _)
\* the result of the first candidate that succeeds, else the value
ClaimedUnion(v, any_of) ==
    LET ok == {k \in 1..Len(any_of) : ClaimedSucceeds(any_of[k], v)}
    IN  IF ok = {} THEN v
        ELSE IF any_of[FirstOf(ok)].hasType THEN AnyOfTyped(any_of[FirstOf(ok)], v).v
        ELSE ClaimedUnion(v, any_of[FirstOf(ok)].anyOf)

(* C6: within the depth budget, convert_body_property_any_of returns the   *)
(* result of the first candidate, in declared order, that succeeds, a      *)
(* candidate that does not succeed (a nested union with no succeeding      *)
(* candidate included) being skipped; with no succeeding candidate it      *)
(* returns the value unchanged; it never raises.                           *)
C6_UnionFirstSuccessClaimed ==
    (pc = "coerced:anyOf" /\ max_recursive = MaxRecursive) =>
        outcome = Ret(ClaimedUnion(value, property.anyOf))

\* the transport was called
Sent == calls # <<>>

\* the entry of the field map for declared property k, as the claim gives it:
\* the coerced input value, else the default, else null
ClaimedField(k) ==
    LET name == BodySchema.properties[k][1]
        prop == BodySchema.properties[k][2]
    IN  <<name,
          IF name \in DOMAIN tool_input THEN convert_body_property_type(prop, tool_input[name]).v
          ELSE IF prop.hasDefault THEN prop.default
          ELSE PyNone>>

\* one entry per declared property, in declaration order
ClaimedFieldMap == [k \in 1..Len(BodySchema.properties) |-> ClaimedField(k)]

RECURSIVE ClaimedForm(_)
\* name=value of the declared properties from k on, joined by &
ClaimedForm(k) ==
    IF k > Len(BodySchema.properties) THEN <<>>
    ELSE (IF k > 1 THEN <<"&">> ELSE <<>>)
         \o QuotePlus(NameChars(ClaimedField(k)[1])) \o <<"=">>
         \o QuotePlus(StrOf(ClaimedField(k)[2])) \o ClaimedForm(k + 1)

(* C7: when the transport is called for a descriptor with a requestBody,   *)
(* the Content-Type header sent is the first content type, the field map   *)
(* has one entry per declared property of the first schema, in declaration *)
(* order (coerced input value, else default, else null) and none for       *)
(* other input keys, and the payload is the JSON text of the map for       *)
(* application/json, its form encoding in declaration order for            *)
(* application/x-www-form-urlencoded, and the map itself otherwise.        *)
C7_BodyPayload ==
    (Sent /\ HasBodySchema) =>
        /\ DictGet(calls[1].headers, "Content-Type") = MediaType(FirstContentType)
        /\ locals.body = ClaimedFieldMap
        /\ DictKeys(locals.body) \subseteq {BodySchema.properties[k][1] : k \in 1..Len(BodySchema.properties)}
        /\ calls[1].data =
              CASE FirstContentType = "application/json" -> DataText(JsonDumpsMap(ClaimedFieldMap))
                [] FirstContentType = "application/x-www-form-urlencoded" -> DataText(ClaimedForm(1))
                [] OTHER -> DataMap(ClaimedFieldMap)

\* a form-encoded request of two declared fields, "b" before "a", of which one
\* is coerced from the input and the other takes its default, with two
\* content types declared
C7_Witness ==
    /\ Sent /\ HasBodySchema
    /\ Len(openapi_spec.requestBody.content) = 2
    /\ FirstContentType = "application/x-www-form-urlencoded"
    /\ calls[1].data = DataText(<<"b", "=", "2", "&", "a", "=", "d">>)
    /\ tool_input = [n \in {"b"} |-> PyStr(<<"2">>)]
    /\ locals.body = <<<<"b", PyInt(2)>>, <<"a", PyStr(<<"d">>)>>>>

\* request construction (routing and body) raises nothing
Constructed ==
    /\ MissingRequired = {}
    /\ BuildBody(openapi_spec.requestBody, tool_input, <<>>).err.exc = ""

\* the verb a method names, compared without regard to letter case
VerbOf(method) ==
    CASE method \in {<<"G", "E", "T">>, <<"g", "e", "t">>, <<"G", "e", "t">>} -> <<"g", "e", "t">>
      [] method = <<"H", "E", "A", "D">> -> <<"h", "e", "a", "d">>
      [] method = <<"p", "o", "s", "t">> -> <<"p", "o", "s", "t">>
      [] method = <<"P", "U", "T">> -> <<"p", "u", "t">>
      [] method = <<"D", "e", "l", "e", "t", "e">> -> <<"d", "e", "l", "e", "t", "e">>
      [] method \in {<<"p", "a", "t", "c", "h">>, <<"P", "A", "T", "C", "H">>} -> <<"p", "a", "t", "c", "h">>
      [] OTHER -> <<>>

DestinationMap(in) ==
    CASE in = "path" -> locals.path_params
      [] in = "query" -> locals.params
      [] in = "header" -> locals.headers
      [] in = "cookie" -> locals.cookies

\* the declared parameters, of a routed location, whose name is a key of the
\* input with a null value
NullParameters ==
    {k \in 1..Len(Parameters) :
        /\ Parameters[k].in \in {"path", "query", "header", "cookie"}
        /\ Parameters[k].name \in DOMAIN tool_input
        /\ tool_input[Parameters[k].name] = PyNone}

\* the Parameter Router has gone through every parameter
Routed == Ran /\ MissingRequired = {}

(* C9 as claimed: a declared parameter whose input value is null is        *)
(* present: it is routed, so the map of its `in` has its name.             *)
C9_NullIsRoutedClaimed ==
    Routed => \A k \in NullParameters : DictHas(DestinationMap(Parameters[k].in), Parameters[k].name)

(* C9 as amended: a declared parameter whose input value is null is not    *)
(* replaced by its schema default and, when required, raises no            *)
(* missing-parameter error, but it is not routed: the map of its `in` has  *)
(* no entry of its name.                                                   *)
C9_NullIsNotRouted ==
    Ran => \A k \in NullParameters :
              /\ outcome.arg # <<Parameters[k].name>>
              /\ Routed => ~DictHas(DestinationMap(Parameters[k].in), Parameters[k].name)

\* a required query parameter with a schema default and a null input value was
\* routed past, and the request went out without it
C9_Witness ==
    /\ Sent
    /\ 1 \in NullParameters
    /\ Parameters[1].in = "query" /\ Parameters[1].required /\ Parameters[1].default # PyNone
    /\ calls[1].params = <<>>

\* the routed path parameter (if any) whose placeholder starts at position k
PlaceholderAt(s, k, path_params) ==
    {j \in 1..Len(path_params) :
        /\ k + Len(Placeholder(path_params[j][1])) - 1 <= Len(s)
        /\ SubSeq(s, k, k + Len(Placeholder(path_params[j][1])) - 1) = Placeholder(path_params[j][1])}

RECURSIVE SubstituteFrom(_, _, _)
\* one pass over s from position k on: a placeholder of a routed path
\* parameter becomes the value's string form, any other character stays
SubstituteFrom(s, k, path_params) ==
    IF k > Len(s) THEN <<>>
    ELSE IF PlaceholderAt(s, k, path_params) = {} THEN <<s[k]>> \o SubstituteFrom(s, k + 1, path_params)
    ELSE LET j == FirstOf(PlaceholderAt(s, k, path_params))
         IN  StrOf(path_params[j][2])
             \o SubstituteFrom(s, k + Len(Placeholder(path_params[j][1])), path_params)

RECURSIVE OneByOne(_, _, _)
\* the passes for one parameter at a time, from path parameter k on
OneByOne(s, k, path_params) ==
    IF k > Len(path_params) THEN s
    ELSE OneByOne(SubstituteFrom(s, 1, <<path_params[k]>>), k + 1, path_params)

RECURSIVE Occurrences(_, _)
\* how many times old occurs in s, counted left to right without overlap
Occurrences(s, old) ==
    IF Len(s) < Len(old) THEN 0
    ELSE IF SubSeq(s, 1, Len(old)) = old
         THEN 1 + Occurrences(SubSeq(s, Len(old) + 1, Len(s)), old)
         ELSE Occurrences(Tail(s), old)

\* no substituted text has a brace
NoBraces(path_params) ==
    \A j \in 1..Len(path_params) :
        ~HasChar(StrOf(path_params[j][2]), "{") /\ ~HasChar(StrOf(path_params[j][2]), "}")

----------------------------------------------------------------------------
(* C11 *)

\* the descriptor has no requestBody, or its requestBody is null
NoBody == ~openapi_spec.requestBody.present \/ openapi_spec.requestBody.null

\* the headers of the transport call carry this Content-Type
SentContentType(ctype) ==
    \E k \in 1..Len(calls[1].headers) :
        calls[1].headers[k] = <<"Content-Type", MediaType(ctype)>>

(* C11, as claimed: if the descriptor has no requestBody, or a null one,   *)
(* the body handed to the transport is the empty field map, unserialized,  *)
(* for every input, every set of declared parameters and every caller's    *)
(* header map.                                                             *)
C11_EmptyBodyClaimed ==
    (Sent /\ NoBody) => calls[1].data = DataMap(<<>>)

(* C11, as the code has it: if the descriptor has no requestBody, or a     *)
(* null one, the field map is empty, and what the transport gets is that   *)
(* map serialized per the outbound Content-Type header: the text {} under  *)
(* application/json, the empty text under                                  *)
(* application/x-www-form-urlencoded, the empty map itself otherwise.      *)
C11_EmptyFieldMapSerialized ==
    (Sent /\ NoBody) =>
        /\ locals.body = <<>>
        /\ calls[1].data =
              IF SentContentType("application/json") THEN DataText(<<"{", "}">>)
              ELSE IF SentContentType("application/x-www-form-urlencoded") THEN DataText(<<>>)
              ELSE DataMap(<<>>)

\* do_http_request, called with a header map that carries Content-Type
\* application/json on a descriptor without requestBody, has handed the text
\* {} to the transport
C11_Witness ==
    /\ pc = "do_http_request:transport"
    /\ ~openapi_spec.requestBody.present
    /\ DictHas(headers_arg, "Content-Type")
    /\ SentContentType("application/json")
    /\ calls[1].data = DataText(<<"{", "}">>)

============================================================================
